---- MODULE Spec2Model ----
(***************************************************************************)
(* A circular genome accumulating transposable elements (TEs), as          *)
(* implemented twice in genome.py: ListGenome (a Python list of            *)
(* (symbol, id) tuples plus two dicts of TE records) and LinkedListGenome  *)
(* (a ring of DoublyLink objects with a header, plus a list of TE          *)
(* objects).  A caller constructs a genome object of one of the classes,   *)
(* or one of each with the same n (SpecLockstep), and calls insert_te,     *)
(* copy_te and disable_te on what it constructed; every action below is    *)
(* one such call, run to completion, exceptions included.                  *)
(***************************************************************************)
EXTENDS Integers, Sequences, FiniteSets, TLC

(* ---- bounds of the model ---- *)
MaxN == 1          \* genomes are created with n in 0..MaxN
MaxTEs == 3        \* at most this many ids are allocated per genome
MaxTeLength == 1   \* insert_te is called with length up to this
MaxOffset == 1     \* copy_te is called with offset in -MaxOffset..MaxOffset

(* ---- Python values ---- *)
None == 0

\* The outcome of a call: a returned value (None for "no value") or the
\* name of the exception that left the method.
Return(v) == [raised |-> "", value |-> v]
Raise(e) == [raised |-> e, value |-> None]

\* Python's a % b: the result takes the sign of the divisor b (b # 0).
PyMod(a, b) ==
    IF b > 0 THEN a % b
    ELSE IF (-a) % (-b) = 0 THEN 0 ELSE -((-a) % (-b))

\* lst[i] of a Python list: i in -len..len-1, negative i counts from the end.
PyIndexOK(lst, i) == -Len(lst) <= i /\ i < Len(lst)
PyIndex(lst, i) == IF i < 0 THEN i + Len(lst) + 1 ELSE i + 1
PyGet(lst, i) == lst[PyIndex(lst, i)]
PySet(lst, i, v) == [lst EXCEPT ![PyIndex(lst, i)] = v]

\* lst[pos:pos] = te : the slice bounds are clamped into 0..len.
PySliceStart(lst, pos) ==
    IF pos < 0 THEN (IF pos + Len(lst) < 0 THEN 0 ELSE pos + Len(lst))
    ELSE IF pos > Len(lst) THEN Len(lst) ELSE pos
\* The slip lst[pos:pos+1] = te, which overwrites the symbol at pos.
PySpliceMutant(lst, pos, te) ==
    SubSeq(lst, 1, PySliceStart(lst, pos)) \o te
        \o SubSeq(lst, PySliceStart(lst, pos) + 2, Len(lst))
PySplice(lst, pos, te) ==
    SubSeq(lst, 1, PySliceStart(lst, pos)) \o te
        \o SubSeq(lst, PySliceStart(lst, pos) + 1, Len(lst))

\* A Python dict: a sequence of <<key, value>> entries in insertion order.
DictKeys(d) == [i \in 1..Len(d) |-> d[i][1]]
DictHas(d, k) == \E i \in 1..Len(d) : d[i][1] = k
DictGet(d, k) == d[CHOOSE i \in 1..Len(d) : d[i][1] = k][2]
DictSet(d, k, v) ==
    IF DictHas(d, k)
    THEN [i \in 1..Len(d) |-> IF d[i][1] = k THEN <<k, v>> ELSE d[i]]
    ELSE Append(d, <<k, v>>)
DictPop(d, k) == SelectSeq(d, LAMBDA e : e[1] # k)

(***************************************************************************)
(* ListGenome.  self is the record of the object's four fields.            *)
(***************************************************************************)
ListGenome_init(n) ==
    [genome |-> [i \in 1..n |-> <<"-", 0>>],
     active_TEs |-> <<>>,
     inactive_TEs |-> <<>>,
     number_of_TEs |-> 0]

\* for n in range(a, b): genome[n] = ('x', id); stops at the first index
\* that is out of range.
RECURSIVE ListFlip(_, _, _, _)
ListFlip(g, a, b, id) ==
    IF a >= b THEN [genome |-> g, ok |-> TRUE]
    ELSE IF ~PyIndexOK(g, a) THEN [genome |-> g, ok |-> FALSE]
    ELSE ListFlip(PySet(g, a, <<"x", id>>), a + 1, b, id)

ListGenome_disable_te(self, te) ==
    IF ~DictHas(self.active_TEs, te)
    THEN [self |-> self, ret |-> Raise("KeyError")]
    ELSE LET rec == DictGet(self.active_TEs, te)
             start_pos_of_te == rec[1]
             length_of_te == rec[2]
             loop == ListFlip(self.genome, start_pos_of_te,
                              start_pos_of_te + length_of_te, te)
         IN  IF ~loop.ok
             THEN [self |-> [self EXCEPT !.genome = loop.genome],
                   ret |-> Raise("IndexError")]
             ELSE [self |-> [self EXCEPT
                                !.genome = loop.genome,
                                !.inactive_TEs = DictSet(@, te, rec),
                                !.active_TEs = DictPop(@, te)],
                   ret |-> Return(None)]

\* The last loop of insert_te: every active TE whose start is after pos
\* moves length to the right.
ListShift(active, pos, length) ==
    [i \in 1..Len(active) |->
        IF active[i][2][1] > pos
        THEN <<active[i][1], <<active[i][2][1] + length, active[i][2][2]>>>>
        ELSE active[i]]

ListGenome_insert_te(self, pos, length) ==
    LET s1 == [self EXCEPT !.number_of_TEs = @ + 1]
        id == s1.number_of_TEs
        te == [i \in 1..length |-> <<"A", id>>]
    IN  IF ~PyIndexOK(s1.genome, pos)
        THEN [self |-> s1, ret |-> Raise("IndexError")]
        ELSE LET d == IF PyGet(s1.genome, pos)[1] = "A"
                      THEN ListGenome_disable_te(s1, PyGet(s1.genome, pos)[2])
                      ELSE [self |-> s1, ret |-> Return(None)]
                 s2 == d.self
             IN  IF d.ret.raised # ""
                 THEN d
                 ELSE [self |-> [s2 EXCEPT
                                   !.genome = PySplice(s2.genome, pos, te),
                                   !.active_TEs =
                                       ListShift(DictSet(s2.active_TEs, id,
                                                         <<pos, length>>),
                                                 pos, length)],
                       ret |-> Return(id)]

ListGenome_copy_te(self, te, offset) ==
    IF ~DictHas(self.active_TEs, te)
    THEN [self |-> self, ret |-> Raise("KeyError")]
    ELSE LET start_position_original == DictGet(self.active_TEs, te)[1]
             length == DictGet(self.active_TEs, te)[2]
         IN  IF Len(self.genome) = 0
             THEN [self |-> self, ret |-> Raise("ZeroDivisionError")]
             ELSE ListGenome_insert_te(
                      self,
                      PyMod(start_position_original + offset, Len(self.genome)),
                      length)

ListGenome_active_tes(self) == DictKeys(self.active_TEs)
ListGenome_len(self) == Len(self.genome)
ListGenome_str(self) == [i \in 1..Len(self.genome) |-> self.genome[i][1]]

(***************************************************************************)
(* The linked backing store.  links is the heap of DoublyLink objects,     *)
(* addressed by index; a Nucleotide is held by value in the link that      *)
(* carries it (no Nucleotide object is ever shared by two links).          *)
(***************************************************************************)
Nucleotide(symbol, id) == [symbol |-> symbol, id |-> id]
NoElement == [symbol |-> "", id |-> None]   \* the header's element, None

\* DoublyLink(element, previous, next).  prev is the attribute __init__ of
\* DoublyLinkedListSequence sets on a header; no other link has it.
DoublyLink(element, previous, next) ==
    [element |-> element, previous |-> previous, next |-> next, prev |-> None]

TE(id, pos, seq, length) ==
    [id |-> id, pos |-> pos, seq |-> seq, length |-> length, status |-> "active"]

insert_after(links, link, element) ==
    LET new_link == Len(links) + 1
        l1 == Append(links, DoublyLink(element, link, links[link].next))
        l2 == [l1 EXCEPT ![l1[new_link].previous].next = new_link]
    IN  [l2 EXCEPT ![l2[new_link].next].previous = new_link]

\* for element in seq: insert_after(self.head.prev, element)
RECURSIVE InsertAll(_, _, _)
InsertAll(links, head, seq) ==
    IF seq = <<>> THEN links
    ELSE InsertAll(insert_after(links, links[head].prev, Head(seq)),
                   head, Tail(seq))

\* DoublyLinkedListSequence(seq): the new header is the link at index
\* Len(links) + 1 of the heap returned.
DoublyLinkedListSequence(links, seq) ==
    LET head == Len(links) + 1
        l1 == Append(links, DoublyLink(NoElement, None, None))
        l2 == [l1 EXCEPT ![head].prev = head]
        l3 == [l2 EXCEPT ![head].next = head]
    IN  InsertAll(l3, head, seq)

\* The links from link up to, not including, the header, following next.
RECURSIVE LinksFrom(_, _, _)
LinksFrom(links, head, link) ==
    IF link = head THEN <<>>
    ELSE <<link>> \o LinksFrom(links, head, links[link].next)

Sequence_str(links, head) ==
    LET w == LinksFrom(links, head, links[head].next)
    IN  [i \in 1..Len(w) |-> links[w[i]].element.symbol]

Sequence_len(links, head) == Len(LinksFrom(links, head, links[head].next))

\* get_link_at_index: the link, or None where the code raises IndexError.
RECURSIVE LinkAt(_, _, _, _)
LinkAt(links, head, link, index) ==
    IF link = head THEN None
    ELSE IF index = 0 THEN link
    ELSE LinkAt(links, head, links[link].next, index - 1)

get_link_at_index(links, head, index) ==
    IF index < 0 THEN None ELSE LinkAt(links, head, links[head].next, index)

\* set_at_index on an index get_link_at_index accepts.
set_at_index(links, head, index, element) ==
    [links EXCEPT ![get_link_at_index(links, head, index)].element = element]

insert_list_after_link(links, link, begin, end) ==
    LET l1 == [links EXCEPT ![end].next = links[link].next]
        l2 == [l1 EXCEPT ![l1[end].next].previous = end]
        l3 == [l2 EXCEPT ![begin].previous = link]
    IN  [l3 EXCEPT ![l3[begin].previous].next = begin]

(***************************************************************************)
(* LinkedListGenome.  self is the record of the heap and the object's      *)
(* fields: genome (the header of its DoublyLinkedListSequence) and tes.    *)
(***************************************************************************)
LinkedListGenome_init(n) ==
    [links |-> DoublyLinkedListSequence(<<>>, [i \in 1..n |-> Nucleotide("-", None)]),
     genome |-> 1,
     tes |-> <<>>]

\* tes[id - 1] of the Python list tes: the index may be negative.
TesIndexOK(tes, id) == PyIndexOK(tes, id - 1)
TesIndex(tes, id) == PyIndex(tes, id - 1)

\* insert_te, on a collision:
\* for index in range(a, b): set_at_index(index, Nucleotide('x', id_old));
\* stops at the first index that is out of range.
RECURSIVE LinkedOverwrite(_, _, _, _, _)
LinkedOverwrite(links, head, a, b, id_old) ==
    IF a >= b THEN [links |-> links, ok |-> TRUE]
    ELSE IF get_link_at_index(links, head, a) = None
    THEN [links |-> links, ok |-> FALSE]
    ELSE LinkedOverwrite(set_at_index(links, head, a, Nucleotide("x", id_old)),
                         head, a + 1, b, id_old)

\* disable_te: for n in range(a, b): get_element_at_index(n).symbol = 'x'
RECURSIVE LinkedFlip(_, _, _, _)
LinkedFlip(links, head, a, b) ==
    IF a >= b THEN [links |-> links, ok |-> TRUE]
    ELSE IF get_link_at_index(links, head, a) = None
    THEN [links |-> links, ok |-> FALSE]
    ELSE LinkedFlip(
             [links EXCEPT ![get_link_at_index(links, head, a)].element.symbol = "x"],
             head, a + 1, b)

\* for _ in range(length): insert_after(seq.head, Nucleotide('A', id))
RECURSIVE BuildSeq(_, _, _, _)
BuildSeq(links, head, length, id) ==
    IF length <= 0 THEN links
    ELSE BuildSeq(insert_after(links, head, Nucleotide("A", id)),
                  head, length - 1, id)

\* The last loop of insert_te: every TE whose pos is after pos moves.
LinkedShift(tes, pos, length) ==
    [i \in 1..Len(tes) |->
        IF tes[i].pos > pos THEN [tes[i] EXCEPT !.pos = @ + length] ELSE tes[i]]

\* An exception leaves self as it was when it was raised; the links built
\* for a TE that was never spliced in are unreachable and are dropped.
LinkedListGenome_insert_te(self, pos, length) ==
    LET id == Len(self.tes) + 1
        seq == Len(self.links) + 1
        l1 == BuildSeq(DoublyLinkedListSequence(self.links, <<>>), seq, length, id)
        te == TE(id, pos, seq, length)
        at == get_link_at_index(l1, self.genome, pos)
    IN  IF at = None
        THEN [self |-> self, ret |-> Raise("IndexError")]
        ELSE LET nucleotide == l1[at].element
                 collides == nucleotide.symbol = "A"
                 id_old == nucleotide.id
                 te_old == self.tes[TesIndex(self.tes, id_old)]
                 loop == IF collides
                         THEN LinkedOverwrite(l1, self.genome, te_old.pos,
                                              te_old.pos + te_old.length, id_old)
                         ELSE [links |-> l1, ok |-> TRUE]
                 l2 == loop.links
                 tes2 == IF collides
                         THEN [self.tes EXCEPT
                                  ![TesIndex(self.tes, id_old)].status = "inactive"]
                         ELSE self.tes
                 link == IF pos # 0
                         THEN get_link_at_index(l2, self.genome, pos - 1)
                         ELSE self.genome
                 begin == l2[seq].next
                 end == l2[seq].previous
             IN  IF collides /\ ~TesIndexOK(self.tes, id_old)
                 THEN [self |-> self, ret |-> Raise("IndexError")]
                 ELSE IF ~loop.ok
                 THEN [self |-> [self EXCEPT !.links = SubSeq(l2, 1, Len(self.links))],
                       ret |-> Raise("IndexError")]
                 ELSE IF end = None
                 THEN [self |-> [self EXCEPT
                                   !.links = SubSeq(l2, 1, Len(self.links)),
                                   !.tes = tes2],
                       ret |-> Raise("AttributeError")]
                 ELSE [self |-> [self EXCEPT
                                   !.links = insert_list_after_link(l2, link, begin, end),
                                   !.tes = LinkedShift(Append(tes2, te), pos, length)],
                       ret |-> Return(id)]

LinkedListGenome_copy_te(self, id, offset) ==
    IF ~TesIndexOK(self.tes, id)
    THEN [self |-> self, ret |-> Raise("IndexError")]
    ELSE LET te == self.tes[TesIndex(self.tes, id)]
             length_genome == Sequence_len(self.links, self.genome)
         IN  IF te.status = "active"
             THEN IF length_genome = 0
                  THEN [self |-> self, ret |-> Raise("ZeroDivisionError")]
                  ELSE LinkedListGenome_insert_te(
                           self, PyMod(offset + te.pos, length_genome), te.length)
             ELSE [self |-> self, ret |-> Return(None)]

LinkedListGenome_disable_te(self, id) ==
    IF ~TesIndexOK(self.tes, id)
    THEN [self |-> self, ret |-> Raise("IndexError")]
    ELSE LET te == self.tes[TesIndex(self.tes, id)]
             loop == LinkedFlip(self.links, self.genome, te.pos, te.pos + te.length)
         IN  IF ~loop.ok
             THEN [self |-> [self EXCEPT !.links = loop.links],
                   ret |-> Raise("IndexError")]
             ELSE [self |-> [self EXCEPT
                               !.links = loop.links,
                               !.tes[TesIndex(self.tes, id)].status = "inactive"],
                   ret |-> Return(None)]

LinkedListGenome_active_tes(self) ==
    LET active == SelectSeq(self.tes, LAMBDA te : te.status = "active")
    IN  [i \in 1..Len(active) |-> active[i].id]
LinkedListGenome_len(self) == Sequence_len(self.links, self.genome)
LinkedListGenome_str(self) == Sequence_str(self.links, self.genome)

(***************************************************************************)
(* The state: the genome objects the caller has constructed (objs), the    *)
(* fields of each, the last call made (call: the method and its arguments, *)
(* in the order of the signature) and its outcome on each object (ret).    *)
(* The fields of an object that was not constructed stay empty.            *)
(***************************************************************************)
VARIABLES objs,
          genome, active_TEs, inactive_TEs, number_of_TEs,   \* ListGenome
          links, tes,                                        \* LinkedListGenome
          call, ret

listVars == <<genome, active_TEs, inactive_TEs, number_of_TEs>>
linkedVars == <<links, tes>>
vars == <<objs, genome, active_TEs, inactive_TEs, number_of_TEs, links, tes,
          call, ret>>

ListSelf ==
    [genome |-> genome, active_TEs |-> active_TEs,
     inactive_TEs |-> inactive_TEs, number_of_TEs |-> number_of_TEs]
LinkedSelf == [links |-> links, genome |-> 1, tes |-> tes]

HasList == "ListGenome" \in objs
HasLinked == "LinkedListGenome" \in objs

Construct(classes, n) ==
    /\ objs = classes
    /\ genome = IF "ListGenome" \in classes THEN ListGenome_init(n).genome ELSE <<>>
    /\ active_TEs = <<>>
    /\ inactive_TEs = <<>>
    /\ number_of_TEs = 0
    /\ links = IF "LinkedListGenome" \in classes
               THEN LinkedListGenome_init(n).links ELSE <<>>
    /\ tes = <<>>
    /\ call = [op |-> "__init__", args |-> <<n>>]
    /\ ret = [c \in classes |-> Return(None)]

Init ==
    \E c \in {"ListGenome", "LinkedListGenome"}, n \in 0..MaxN : Construct({c}, n)

\* A call leaves the fields of the objects and ret as the method's result
\* on each constructed object says: rl on the ListGenome, rk on the
\* LinkedListGenome.
Called(rl, rk) ==
    /\ IF HasList
       THEN /\ genome' = rl.self.genome
            /\ active_TEs' = rl.self.active_TEs
            /\ inactive_TEs' = rl.self.inactive_TEs
            /\ number_of_TEs' = rl.self.number_of_TEs
       ELSE UNCHANGED listVars
    /\ IF HasLinked
       THEN /\ links' = rk.self.links
            /\ tes' = rk.self.tes
       ELSE UNCHANGED linkedVars
    /\ ret' = [c \in objs |-> IF c = "ListGenome" THEN rl.ret ELSE rk.ret]
    /\ UNCHANGED objs

insert_te(pos, length) ==
    /\ call' = [op |-> "insert_te", args |-> <<pos, length>>]
    /\ LET rl == ListGenome_insert_te(ListSelf, pos, length)
           rk == LinkedListGenome_insert_te(LinkedSelf, pos, length)
       IN  Called(rl, rk)

copy_te(te, offset) ==
    /\ call' = [op |-> "copy_te", args |-> <<te, offset>>]
    /\ LET rl == ListGenome_copy_te(ListSelf, te, offset)
           rk == LinkedListGenome_copy_te(LinkedSelf, te, offset)
       IN  Called(rl, rk)

disable_te(te) ==
    /\ call' = [op |-> "disable_te", args |-> <<te>>]
    /\ LET rl == ListGenome_disable_te(ListSelf, te)
           rk == LinkedListGenome_disable_te(LinkedSelf, te)
       IN  Called(rl, rk)

(* ---- what a caller can observe of object c ---- *)
Str(c) == IF c = "ListGenome" THEN ListGenome_str(ListSelf)
          ELSE LinkedListGenome_str(LinkedSelf)
Length(c) == IF c = "ListGenome" THEN ListGenome_len(ListSelf)
             ELSE LinkedListGenome_len(LinkedSelf)
ActiveTes(c) == IF c = "ListGenome" THEN ListGenome_active_tes(ListSelf)
                ELSE LinkedListGenome_active_tes(LinkedSelf)

Range(seq) == {seq[i] : i \in 1..Len(seq)}

\* The ids of the TE records object c holds, and the ids it has allocated.
Created(c) ==
    IF c = "ListGenome"
    THEN Range(DictKeys(active_TEs)) \cup Range(DictKeys(inactive_TEs))
    ELSE {tes[i].id : i \in 1..Len(tes)}
Allocated(c) == IF c = "ListGenome" THEN number_of_TEs ELSE Len(tes)

(* ---- the calls a caller makes ---- *)
\* A caller allocating at most maxTEs ids, with lengths up to maxLength.
MayAllocate(maxTEs) == \A c \in objs : Allocated(c) < maxTEs
MaxPosition(maxTEs, maxLength) == MaxN + maxTEs * maxLength

\* Calls whose preconditions hold: 0 <= pos < len, length >= 1, te an id
\* that insert_te or copy_te has returned.
ValidInsert(maxTEs, maxLength) ==
    \E pos \in 0..MaxPosition(maxTEs, maxLength), length \in 1..maxLength :
        /\ MayAllocate(maxTEs)
        /\ \A c \in objs : pos < Length(c)
        /\ insert_te(pos, length)
ValidCopy(maxTEs) ==
    \E te \in 1..maxTEs, offset \in -MaxOffset..MaxOffset :
        /\ MayAllocate(maxTEs)
        /\ \A c \in objs : te \in Created(c)
        /\ copy_te(te, offset)
ValidDisable(maxTEs) ==
    \E te \in 1..maxTEs :
        /\ \A c \in objs : te \in Created(c)
        /\ disable_te(te)

Next ==
    \/ ValidInsert(MaxTEs, MaxTeLength)
    \/ ValidCopy(MaxTEs)
    \/ ValidDisable(MaxTEs)
Spec == Init /\ [][Next]_vars

\* The same calls, one more TE and TEs one longer: the runs that need four
\* TEs, one of them of length 2.
NextDeep ==
    \/ ValidInsert(MaxTEs + 1, MaxTeLength + 1)
    \/ ValidCopy(MaxTEs + 1)
    \/ ValidDisable(MaxTEs + 1)
SpecDeep == Init /\ [][NextDeep]_vars

\* The calls whose preconditions hold, and insert_te at the position just
\* past the end of the genome, which is rejected.
RejectedInsert(maxTEs, maxLength) ==
    \E c \in objs, length \in 1..maxLength :
        /\ MayAllocate(maxTEs)
        /\ insert_te(Length(c), length)

NextRejecting ==
    \/ ValidInsert(MaxTEs, MaxTeLength)
    \/ ValidCopy(MaxTEs)
    \/ ValidDisable(MaxTEs)
    \/ RejectedInsert(MaxTEs, MaxTeLength)
SpecRejecting == Init /\ [][NextRejecting]_vars

\* Any call, also with a position outside the genome, a length of 0 or an
\* id that was never returned.
AnyInsert ==
    \E pos \in -1..(MaxPosition(MaxTEs, MaxTeLength) + 1), length \in 0..MaxTeLength :
        /\ MayAllocate(MaxTEs)
        /\ \A c \in objs : pos <= Length(c)
        /\ insert_te(pos, length)
AnyCopy ==
    \E te \in 0..(MaxTEs + 1), offset \in -MaxOffset..MaxOffset :
        /\ MayAllocate(MaxTEs)
        /\ \A c \in objs : te <= Allocated(c) + 1
        /\ copy_te(te, offset)
AnyDisable ==
    \E te \in 0..(MaxTEs + 1) :
        /\ \A c \in objs : te <= Allocated(c) + 1
        /\ disable_te(te)

NextAny == AnyInsert \/ AnyCopy \/ AnyDisable
SpecAny == Init /\ [][NextAny]_vars

\* A ListGenome and a LinkedListGenome constructed with the same n, both
\* receiving every call.
InitLockstep ==
    \E n \in 0..MaxN : Construct({"ListGenome", "LinkedListGenome"}, n)
SpecLockstep == InitLockstep /\ [][Next]_vars

(***************************************************************************)
(* Vocabulary of the properties.  Positions are 0-based, as in the code.   *)
(***************************************************************************)
Positions(c) == 0..(Length(c) - 1)

\* The symbol rendered at position p and the TE id the position carries.
Sym(c, p) == Str(c)[p + 1]
Tag(c, p) ==
    IF c = "ListGenome" THEN genome[p + 1][2]
    ELSE links[LinksFrom(links, 1, links[1].next)[p + 1]].element.id

Active(c) == Range(ActiveTes(c))
Inactive(c) == Created(c) \ Active(c)

\* The recorded start and length of TE k of object c.
RecStart(c, k) ==
    IF c = "ListGenome"
    THEN (IF DictHas(active_TEs, k) THEN DictGet(active_TEs, k)[1]
          ELSE DictGet(inactive_TEs, k)[1])
    ELSE tes[k].pos
RecLength(c, k) ==
    IF c = "ListGenome"
    THEN (IF DictHas(active_TEs, k) THEN DictGet(active_TEs, k)[2]
          ELSE DictGet(inactive_TEs, k)[2])
    ELSE tes[k].length
RecRange(c, k) == RecStart(c, k)..(RecStart(c, k) + RecLength(c, k) - 1)

\* What the caller and the TE records show of object c.
Observed(c) ==
    [str |-> Str(c), len |-> Length(c), active |-> ActiveTes(c),
     records |-> [k \in Created(c) |->
                     <<RecStart(c, k), RecLength(c, k), k \in Active(c)>>]]

Returned(c) == ret[c].raised = ""
ReturnedId(c) == ret[c].raised = "" /\ ret[c].value # None

(* ---- C1 ---- *)
\* C1: insert_te(pos, length) at a position that renders 'A' and belongs to
\* TE k returns a new id; afterwards k is not active, every position tagged
\* k renders 'x', the new id is active, and positions pos..pos+length-1
\* render 'A' and belong to the new id.
C1_CollisionRule ==
    [][\A c \in objs :
        (call'.op = "insert_te" /\ Sym(c, call'.args[1]) = "A") =>
            LET k == Tag(c, call'.args[1]) IN
            /\ ReturnedId(c)'
            /\ k \notin Active(c)'
            /\ \A p \in Positions(c)' : Tag(c, p)' = k => Sym(c, p)' = "x"
            /\ ret'[c].value \in Active(c)'
            /\ \A p \in call'.args[1]..(call'.args[1] + call'.args[2] - 1) :
                   Sym(c, p)' = "A" /\ Tag(c, p)' = ret'[c].value
      ]_vars

(* ---- C2 ---- *)
\* C2: copy_te on a TE that was created and is inactive returns None,
\* raises nothing and changes nothing.
C2_CopyInactiveNoOp ==
    [][\A c \in objs :
        (call'.op = "copy_te" /\ call'.args[1] \in Inactive(c)) =>
            /\ ret'[c] = Return(None)
            /\ Observed(c)' = Observed(c)
      ]_vars

(* ---- C3 ---- *)
\* C3: disable_te on a TE that is already inactive raises nothing and
\* changes nothing.
C3_DisableIdempotent ==
    [][\A c \in objs :
        (call'.op = "disable_te" /\ call'.args[1] \in Inactive(c)) =>
            /\ ret'[c] = Return(None)
            /\ Observed(c)' = Observed(c)
      ]_vars

(* ---- C4 ---- *)
\* C4: disable_te(k) on an active TE k turns the positions tagged k, and no
\* other, from 'A' to 'x' and removes k from the active ids; the length and
\* the status and record of every other TE stay as they were.
C4_DisableFrame ==
    [][\A c \in objs :
        (call'.op = "disable_te" /\ call'.args[1] \in Active(c)) =>
            LET k == call'.args[1] IN
            /\ Returned(c)'
            /\ Length(c)' = Length(c)
            /\ \A p \in Positions(c) :
                   Sym(c, p)' = IF Tag(c, p) = k /\ Sym(c, p) = "A"
                                THEN "x" ELSE Sym(c, p)
            /\ Active(c)' = Active(c) \ {k}
            /\ Created(c)' = Created(c)
            /\ \A j \in Created(c) \ {k} :
                   Observed(c)'.records[j] = Observed(c).records[j]
      ]_vars

(* ---- C5 ---- *)
\* The non-negative modulus of the mathematicians: the r in 0..l-1 with
\* a = q*l + r for some integer q.
MathMod(a, l) ==
    CHOOSE r \in 0..(l - 1) :
        \E q \in -(a * a + 1)..(a * a + 1) : a = q * l + r

\* The call just made left object c, and returned, as insert_te(pos, length)
\* on the state before it would have.
SameAsInsert(c, pos, length) ==
    IF c = "ListGenome"
    THEN /\ ListSelf' = ListGenome_insert_te(ListSelf, pos, length).self
         /\ ret'[c] = ListGenome_insert_te(ListSelf, pos, length).ret
    ELSE /\ LinkedSelf' = LinkedListGenome_insert_te(LinkedSelf, pos, length).self
         /\ ret'[c] = LinkedListGenome_insert_te(LinkedSelf, pos, length).ret

\* copy_te(k, offset) on an active TE k recorded at s with length m, in a
\* genome of length L, returns what insert_te((s + offset) mod L, m) returns
\* and leaves the state that call leaves.
CopyIsInsert ==
    [][\A c \in objs :
        (call'.op = "copy_te" /\ call'.args[1] \in Active(c)) =>
            LET k == call'.args[1] IN
            SameAsInsert(c, MathMod(RecStart(c, k) + call'.args[2], Length(c)),
                         RecLength(c, k))
      ]_vars

\* C5: copy_te(k, offset) on an active TE k is insert_te at
\* (s + offset) mod L with k's length, for the non-negative modulus, and a
\* target position inside k's own range disables k.
C5_CopyWraparound ==
    [][\A c \in objs :
        (call'.op = "copy_te" /\ call'.args[1] \in Active(c)) =>
            LET k == call'.args[1]
                target == MathMod(RecStart(c, k) + call'.args[2], Length(c))
            IN  /\ SameAsInsert(c, target, RecLength(c, k))
                /\ target \in RecRange(c, k) => k \notin Active(c)'
      ]_vars

(* ---- C6 ---- *)
\* C6: the recorded ranges of two distinct active TEs are disjoint.
C6_NoOverlappingActives ==
    \A c \in objs : \A j, k \in Active(c) :
        j # k => RecRange(c, j) \cap RecRange(c, k) = {}

(* ---- C7 ---- *)
\* C7: the render has one character of '-', 'A', 'x' per position; it is
\* 'A' exactly in the recorded ranges of the active TEs and 'x' exactly in
\* the recorded ranges of the inactive TEs.
C7_RenderInvariant ==
    \A c \in objs :
        /\ Len(Str(c)) = Length(c)
        /\ \A p \in Positions(c) :
            /\ Sym(c, p) \in {"-", "A", "x"}
            /\ Sym(c, p) = "A" <=> \E k \in Active(c) : p \in RecRange(c, k)
            /\ Sym(c, p) = "x" <=> \E k \in Inactive(c) : p \in RecRange(c, k)

(* ---- C8 ---- *)
\* By how much the call just made is to have lengthened object c: the
\* length asked of an insert_te, the recorded length of the TE a copy_te
\* copied when it returned an id, nothing otherwise.
Grown(c) ==
    IF call'.op = "insert_te" /\ ReturnedId(c)' THEN call'.args[2]
    ELSE IF call'.op = "copy_te" /\ ReturnedId(c)' THEN RecLength(c, call'.args[1])
    ELSE 0

\* C8: a genome created with length n has length n, every insert_te and
\* every copy_te that returns an id adds the inserted length, no other call
\* changes the length, and the length never decreases.
C8_LengthInvariant ==
    /\ [](call.op = "__init__" => \A c \in objs : Length(c) = call.args[1])
    /\ [][\A c \in objs :
            /\ call'.op = "insert_te" => ReturnedId(c)'
            /\ Length(c)' = Length(c) + Grown(c)
            /\ Length(c)' >= Length(c)
         ]_vars

\* A third TE was made by copy_te: the genome holds its n symbols and
\* those of three TEs.
C8_Witness ==
    \E c \in objs :
        /\ call.op = "copy_te"
        /\ ReturnedId(c)
        /\ ret[c].value = MaxTEs
        /\ Length(c) >= MaxN + MaxTEs

(* ---- C9 ---- *)
Max(S) == CHOOSE x \in S : \A y \in S : y <= x

\* C9: a call that creates a TE returns the largest id created so far plus
\* one (1 when there is none), also after calls that were rejected.
C9_IdAllocation ==
    [][\A c \in objs :
        (call'.op \in {"insert_te", "copy_te"} /\ ReturnedId(c)') =>
            /\ ret'[c].value = Max(Created(c) \cup {0}) + 1
            /\ Created(c)' = Created(c) \cup {ret'[c].value}
      ]_vars

(* ---- C10 ---- *)
\* C10: a TE that is inactive stays inactive, and no position that belongs
\* to an inactive TE renders 'A'.
C10_InactiveTerminal ==
    [][\A c \in objs : \A k \in Created(c)' :
        /\ k \in Inactive(c) => k \in Inactive(c)'
        /\ k \in Inactive(c)' =>
              \A p \in Positions(c)' : Tag(c, p)' = k => Sym(c, p)' # "A"
      ]_vars

\* The part of C10 about the status alone: an inactive TE stays inactive.
InactiveStaysInactive ==
    [][\A c \in objs : \A k \in Inactive(c) : k \in Inactive(c)']_vars

(* ---- C11 ---- *)
\* What copy_te and disable_te return on object c for the id te, in the
\* state before the call just made.
CopyOutcome(c, te, offset) ==
    IF c = "ListGenome" THEN ListGenome_copy_te(ListSelf, te, offset).ret
    ELSE LinkedListGenome_copy_te(LinkedSelf, te, offset).ret
DisableOutcome(c, te) ==
    IF c = "ListGenome" THEN ListGenome_disable_te(ListSelf, te).ret
    ELSE LinkedListGenome_disable_te(LinkedSelf, te).ret

\* C11: disable_te and copy_te with an id that no call has returned (0 and
\* ids above the ids created included) raise an error and change nothing,
\* and the outcome differs from the outcome of the same call on a TE that
\* was created and is inactive.
C11_UnknownId ==
    [][\A c \in objs :
        (call'.op \in {"disable_te", "copy_te"} /\ call'.args[1] \notin Created(c)) =>
            /\ ret'[c].raised # ""
            /\ Observed(c)' = Observed(c)
            /\ \A j \in Inactive(c) :
                   ret'[c] # IF call'.op = "copy_te"
                             THEN CopyOutcome(c, j, call'.args[2])
                             ELSE DisableOutcome(c, j)
      ]_vars

(* ---- C12 ---- *)
\* C12: insert_te(pos, length) with pos < 0, pos >= len(genome) or
\* length <= 0 raises IndexError, in both classes, and returns no id.
C12_InsertRejects ==
    [][\A c \in objs :
        (/\ call'.op = "insert_te"
         /\ \/ call'.args[1] < 0
            \/ call'.args[1] >= Length(c)
            \/ call'.args[2] <= 0) =>
            ret'[c] = Raise("IndexError")
      ]_vars

(* ---- C13 ---- *)
\* C13: a call that raises leaves the render, the length, the status and
\* record of every TE, the active ids and the next id to be allocated as
\* they were before the call.
C13_RejectedCallFrame ==
    [][\A c \in objs :
        ret'[c].raised # "" =>
            /\ Observed(c)' = Observed(c)
            /\ Allocated(c)' = Allocated(c)
      ]_vars

(* ---- C14 ---- *)
\* C14: on a genome created with length 0, insert_te(0, length) with
\* length >= 1 returns id 1 and leaves a genome of that length that renders
\* 'A' at every position, in both classes.
C14_InsertIntoEmpty ==
    [][\A c \in objs :
        (/\ call.op = "__init__" /\ call.args[1] = 0
         /\ call'.op = "insert_te"
         /\ call'.args[1] = 0 /\ call'.args[2] >= 1) =>
            /\ ret'[c] = Return(1)
            /\ Length(c)' = call'.args[2]
            /\ Str(c)' = [i \in 1..call'.args[2] |-> "A"]
      ]_vars

(* ---- C15 ---- *)
\* The last call had the same outcome on both objects: both raised, or
\* both returned the same value (an id or None).
SameOutcome ==
    /\ (ret["ListGenome"].raised = "") = (ret["LinkedListGenome"].raised = "")
    /\ ret["ListGenome"].raised = "" =>
           ret["ListGenome"].value = ret["LinkedListGenome"].value

\* C15: a ListGenome and a LinkedListGenome constructed with the same n and
\* given the same calls agree after every call: the call had the same
\* outcome on both, and str(), len() and active_tes() are equal.
C15_Equivalent ==
    (HasList /\ HasLinked) =>
        /\ SameOutcome
        /\ Str("ListGenome") = Str("LinkedListGenome")
        /\ Length("ListGenome") = Length("LinkedListGenome")
        /\ ActiveTes("ListGenome") = ActiveTes("LinkedListGenome")

(* ---- C16 ---- *)
\* The call just made inserted a TE into object c, and the position it
\* inserted at: the pos of an insert_te, the position copy_te computes from
\* the record of the TE it copies.
Inserting(c) == call'.op \in {"insert_te", "copy_te"} /\ ReturnedId(c)'
InsertPos(c) ==
    IF call'.op = "insert_te" THEN call'.args[1]
    ELSE PyMod(RecStart(c, call'.args[1]) + call'.args[2], Length(c))

\* The TEs of object c the call just made turned from active to inactive.
Disabled(c) == Active(c) \ Active(c)'

\* C16: a TE turns from active to inactive only in a disable_te on that TE
\* or in an insertion at a position that renders 'A' and belongs to that
\* TE; an insertion at a position that renders '-' or 'x' disables no TE,
\* and an insertion at a position that renders 'A' disables the TE the
\* position belongs to and no other.
C16_DisablingSteps ==
    [][\A c \in objs :
        /\ \A k \in Disabled(c) :
              \/ call'.op = "disable_te" /\ call'.args[1] = k
              \/ /\ Inserting(c)
                 /\ Sym(c, InsertPos(c)) = "A"
                 /\ Tag(c, InsertPos(c)) = k
        /\ Inserting(c) =>
              Disabled(c) = IF Sym(c, InsertPos(c)) = "A"
                            THEN {Tag(c, InsertPos(c))} ELSE {}
      ]_vars

(* ---- C17 ---- *)
\* The render of object c with the 'A's of the TE that owns position pos
\* turned to 'x' when pos renders 'A', and as it is otherwise.
CollidedRender(c, pos) ==
    [i \in 1..Length(c) |->
        IF /\ Sym(c, pos) = "A"
           /\ Tag(c, i - 1) = Tag(c, pos)
           /\ Sym(c, i - 1) = "A"
        THEN "x" ELSE Sym(c, i - 1)]

\* C17: insert_te(pos, length) with 0 <= pos < L and length >= 1 leaves the
\* render old[0:pos] + 'A'*length + old[pos:L], where old is the render
\* before the call with the 'A's of the collided TE, if any, turned to 'x'.
C17_SpliceFrame ==
    [][\A c \in objs :
        (/\ call'.op = "insert_te"
         /\ call'.args[1] \in Positions(c)
         /\ call'.args[2] >= 1) =>
            LET pos == call'.args[1]
                old == CollidedRender(c, pos)
            IN  Str(c)' = SubSeq(old, 1, pos)
                            \o [i \in 1..call'.args[2] |-> "A"]
                            \o SubSeq(old, pos + 1, Length(c))
      ]_vars

(* ---- C18 ---- *)
\* C18: the record (s, m) of every active TE k lies inside the genome,
\* 0 <= s and s + m <= len; the positions s..s+m-1 render 'A' and belong to
\* k, and no position outside them belongs to k.
C18_ActiveRecords ==
    \A c \in objs : \A k \in Active(c) :
        /\ 0 <= RecStart(c, k)
        /\ RecStart(c, k) + RecLength(c, k) <= Length(c)
        /\ \A p \in Positions(c) :
              IF p \in RecRange(c, k)
              THEN Sym(c, p) = "A" /\ Tag(c, p) = k
              ELSE Tag(c, p) # k

(* ---- C19 ---- *)
\* The header and the links reached from it by next.
RingOf(ls, head) == {head} \cup Range(LinksFrom(ls, head, ls[head].next))

\* Following next from the header comes back to it after len distinct
\* links, and previous and next of every link of the ring, the header
\* included, are links that point back at it.
WellFormedRing(ls, head) ==
    /\ Cardinality(RingOf(ls, head)) = Sequence_len(ls, head) + 1
    /\ \A x \in RingOf(ls, head) :
          /\ ls[x].next # None
          /\ ls[x].previous # None
          /\ ls[ls[x].next].previous = x
          /\ ls[ls[x].previous].next = x

\* The heap after insert_te has built the sequence of a new TE of the given
\* length, before it is spliced into the genome; its header is the link
\* at index Len(links) + 1.
FreshSeq(length) ==
    BuildSeq(DoublyLinkedListSequence(links, <<>>), Len(links) + 1, length,
             Len(tes) + 1)

\* The genome of a LinkedListGenome is a well-formed ring after
\* construction and after every call.
GenomeRing == HasLinked => WellFormedRing(links, 1)

\* The sequence insert_te builds for a new TE is a well-formed ring.
FreshSeqRing ==
    [][(HasLinked /\ call'.op = "insert_te") =>
          WellFormedRing(FreshSeq(call'.args[2]), Len(links) + 1)]_vars

\* C19: every DoublyLinkedListSequence - the genome of LinkedListGenome(n),
\* n >= 0, after construction and after every insert_te, and the sequence
\* built for each new TE - is a ring: next leads from the header back to
\* the header after len links, and x.next.previous and x.previous.next are
\* x for every link x of it, the header included.
C19_RingWellFormed == []GenomeRing /\ FreshSeqRing

====
